---- MODULE Spec2Model ----
(***************************************************************************)
(* CEIC Data Explorer (src/app.py, src/config.py).                         *)
(*                                                                         *)
(* The Streamlit session state is the record session_state.  One action    *)
(* is one execution of the script (CEICExplorerApp.run) from top to        *)
(* bottom, started either by the user acting on a widget that the last     *)
(* execution rendered, or by st.rerun().  The provider (Ceic.login and     *)
(* client.search) is an input of the execution.                            *)
(***************************************************************************)
EXTENDS Integers, Sequences, FiniteSets, TLC

VARIABLES session_state, \* st.session_state, keyed by StateKey
          screen,        \* widgets rendered by the last execution
          rerun,         \* st.rerun() was called: a new execution is queued
          ev,            \* what the last execution did (queries, errors, progress)
          probed,        \* source and declared total of the last probe that succeeded
          stats_input, \* the argument of a call of process_full_metadata
          stats_output \* what that call returned, NoStats before it returns

vars == <<session_state, screen, rerun, ev, probed, stats_input, stats_output>>

(***************************************************************************)
(* Bounds and program constants                                            *)
(***************************************************************************)
SERIES_THRESHOLD_FOR_WARNING == 500

MaxPages == 2        \* pages one provider iterator yields
MaxItems == 2        \* items on one page
MaxDrained == 3      \* items on all the pages of one drain
MaxSmallTotal == 1   \* declared totals 0..MaxSmallTotal, besides the threshold ones
TicksPerDay == 2     \* datetime values are day * TicksPerDay + tick
MaxDay == 2          \* days 0..MaxDay of the update times
MaxList == 3         \* length of a list given to process_full_metadata

None == "None"       \* Python None for string-valued keys
NoRequest == <<>>    \* Python None for SOURCE_ID_TO_LOAD
NoPage == <<>>       \* Python None for next(iter(...), None)
NoTime == -1         \* last_update_time attribute present but None
NoStats == <<>>      \* process_full_metadata has not returned

Sources == {"A", "B"}            \* ids of the static source catalog
Keywords == {"", "k"}            \* filter texts
Usernames == {"", "user"}
Passwords == {"", "secret"}

Totals == (0 .. MaxSmallTotal)
          \cup {SERIES_THRESHOLD_FOR_WARNING, SERIES_THRESHOLD_FOR_WARNING + 1}

\* metadata objects of the provider: attributes may be absent
Metas == { [last_update_time |-> 3, status |-> "Active"],
           [status |-> "Inactive"] }

\* datetime values of last_update_time: the first and the last instant of
\* each day, the epoch (0) among them
Times == { d * TicksPerDay + k : d \in 0 .. MaxDay, k \in {0, TicksPerDay - 1} }

\* metadata objects given to process_full_metadata: last_update_time a
\* datetime, None or absent; status Active, Inactive, Unknown or absent
AggMetas ==
    { [last_update_time |-> u, status |-> "Active"] : u \in Times \cup {NoTime} }
    \cup { [last_update_time |-> u, status |-> "Inactive"] :
              u \in {NoTime, 0, MaxDay * TicksPerDay} }
    \cup { [status |-> st] : st \in {"Active", "Inactive", "Unknown"} }
    \cup { [last_update_time |-> u] : u \in {NoTime, TicksPerDay} }
    \cup { [last_update_time |-> TicksPerDay, status |-> "Unknown"], [id |-> "bare"] }

\* search result items: with or without a metadata attribute
Items == { [metadata |-> m] : m \in Metas } \cup { [id |-> "bare"] }

SeqsUpTo(S, n) == UNION { [1 .. k -> S] : k \in 0 .. n }

\* pages of a search: page.data absent, or page.data with total and items
PagesOf(totals, itemSeqs) ==
    { [data |-> [total |-> t, items |-> is]] : t \in totals, is \in itemSeqs }
    \cup { [info |-> "no data"] }

\* a provider response: the pages its iterator yields, and fail_at = k > 0
\* when the k-th fetch raises instead (k = 1: the search call or the first
\* page), fail_at = 0 when nothing raises
ResponsesOf(pages) ==
    { [pages |-> ps, fail_at |-> k] :
        ps \in SeqsUpTo(pages, MaxPages), k \in 0 .. (MaxPages + 1) }

(***************************************************************************)
(* SessionManager                                                          *)
(***************************************************************************)
initialize ==
    [ logged_in |-> FALSE,
      ceic_client |-> None,
      summary_data |-> <<>>,
      series_details |-> <<>>,
      series_details_source_id |-> None,
      details_filter_keyword |-> "",
      source_id_to_load |-> NoRequest ]

get_client(s) == s.ceic_client

set_client(s, client) ==
    [s EXCEPT !.ceic_client = client, !.logged_in = TRUE]

clear_series_details(s) ==
    [s EXCEPT !.series_details = <<>>,
              !.series_details_source_id = None,
              !.details_filter_keyword = ""]

clear_search_results(s) ==
    clear_series_details([s EXCEPT !.summary_data = <<>>])

\* variant: logout leaves the client in the session
clear_session_keeping_client(s) ==
    clear_search_results([s EXCEPT !.logged_in = FALSE])

clear_session(s) ==
    clear_search_results([s EXCEPT !.logged_in = FALSE, !.ceic_client = None])

\* variant: storing a summary leaves the load intent as it is
set_summary_data_keeping_request(s, data) ==
    [s EXCEPT !.summary_data = data]

set_summary_data(s, data) ==
    [s EXCEPT !.summary_data = data, !.source_id_to_load = NoRequest]

get_summary_data(s) == s.summary_data

\* variant: the details are stored without the id of their source
set_series_details_forgetting_source(s, data, source_id) ==
    [s EXCEPT !.series_details = data,
              !.details_filter_keyword = "",
              !.source_id_to_load = NoRequest]

set_series_details(s, data, source_id) ==
    [s EXCEPT !.series_details = data,
              !.series_details_source_id = source_id,
              !.details_filter_keyword = "",
              !.source_id_to_load = NoRequest]

(***************************************************************************)
(* DataProcessor                                                           *)
(***************************************************************************)
hasattr(obj, name) == name \in DOMAIN obj

\* truthiness of page.data / of a page
HasData(page) == page # NoPage /\ hasattr(page, "data")

\* variant: counts the items of the first page instead of reading the total
create_summary_counting_items(results_page, source_id) ==
    IF ~HasData(results_page)
    THEN [ID |-> source_id, NumSeries |-> 0, Info |-> "No series found or API error."]
    ELSE [ID |-> source_id, NumSeries |-> Len(results_page.data.items)]

create_summary_from_search(results_page, source_id) ==
    IF ~HasData(results_page)
    THEN [ID |-> source_id, NumSeries |-> 0, Info |-> "No series found or API error."]
    ELSE [ID |-> source_id, NumSeries |-> results_page.data.total]

\* datetime.strftime('%Y-%m-%d'): the day of the datetime, as text
strftime(dt) == ToString(dt \div TicksPerDay)

\* variant: the first date of the list is taken for the oldest
SeqFirst(sq) == sq[1]

SeqMin(sq) == CHOOSE x \in { sq[i] : i \in 1 .. Len(sq) } :
                 \A j \in 1 .. Len(sq) : x <= sq[j]
SeqMax(sq) == CHOOSE x \in { sq[i] : i \in 1 .. Len(sq) } :
                 \A j \in 1 .. Len(sq) : x >= sq[j]

\* variant: the epoch counts as a missing date
HasUpdateTimeAfterEpoch(meta) ==
    hasattr(meta, "last_update_time") /\ meta.last_update_time > 0

HasUpdateTime(meta) ==
    hasattr(meta, "last_update_time") /\ meta.last_update_time # NoTime

\* variant: every record that is not Inactive counts as active
IsNotInactive(meta) == ~hasattr(meta, "status") \/ meta.status # "Inactive"

IsActive(meta) == hasattr(meta, "status") /\ meta.status = "Active"

process_full_metadata(metadata_list) ==
    IF metadata_list = <<>>
    THEN [MinDate |-> "N/A", MaxDate |-> "N/A", ActiveSeries |-> 0, ProcessedSeries |-> 0]
    ELSE LET update_dates == [i \in 1 .. Len(SelectSeq(metadata_list, HasUpdateTime)) |->
                                 SelectSeq(metadata_list, HasUpdateTime)[i].last_update_time]
             active_count == Len(SelectSeq(metadata_list, IsActive))
         IN [ MinDate |-> IF update_dates # <<>> THEN strftime(SeqMin(update_dates)) ELSE "N/A",
              MaxDate |-> IF update_dates # <<>> THEN strftime(SeqMax(update_dates)) ELSE "N/A",
              ActiveSeries |-> active_count,
              ProcessedSeries |-> Len(metadata_list) ]

(***************************************************************************)
(* AuthenticationService                                                   *)
(***************************************************************************)
\* variant: only a sign-in with both fields blank is turned away
authenticate_requiring_both_blank(s, username, password, login_ok) ==
    IF username = "" /\ password = ""
    THEN [s |-> s, ok |-> FALSE, errors |-> 0, login_calls |-> 0]
    ELSE IF login_ok
         THEN [s |-> set_client(s, "client"), ok |-> TRUE, errors |-> 0, login_calls |-> 1]
         ELSE [s |-> clear_session(s), ok |-> FALSE, errors |-> 1, login_calls |-> 1]

\* login_ok: whether Ceic.login returns a client or raises
authenticate(s, username, password, login_ok) ==
    IF username = "" \/ password = ""
    THEN [s |-> s, ok |-> FALSE, errors |-> 0, login_calls |-> 0]
    ELSE IF login_ok
         THEN [s |-> set_client(s, "client"), ok |-> TRUE, errors |-> 0, login_calls |-> 1]
         ELSE [s |-> clear_session(s), ok |-> FALSE, errors |-> 1, login_calls |-> 1]

(***************************************************************************)
(* SearchService                                                           *)
(***************************************************************************)
\* escaped: an exception left the service method and ended the execution
NoQuery == [s |-> initialize, errors |-> 0, result |-> "none", queries |-> 0,
            escaped |-> FALSE,
            pages_read |-> 0, progress |-> <<>>]

\* next(iter(search_iterator), None): the probe fetches one page
ProbeFetches == 1

\* variant: the provider's exception is not caught by the search
search_by_source_uncaught(s, source_id, resp) ==
    IF get_client(s) = None
    THEN [NoQuery EXCEPT !.s = s, !.errors = 1]
    ELSE LET s1 == clear_search_results(s)
         IN IF resp.fail_at # 0 /\ resp.fail_at <= ProbeFetches
            THEN [NoQuery EXCEPT !.s = s1, !.escaped = TRUE,
                                 !.result = "error", !.queries = 1,
                                 !.pages_read = resp.fail_at - 1]
            ELSE LET first_page == IF resp.pages = <<>> THEN NoPage ELSE resp.pages[1]
                     summary == create_summary_from_search(first_page, source_id)
                 IN [NoQuery EXCEPT !.s = set_summary_data(s1, <<summary>>),
                                    !.result = "ok", !.queries = 1,
                                    !.pages_read = IF Len(resp.pages) < ProbeFetches
                                                   THEN Len(resp.pages) ELSE ProbeFetches]

search_by_source(s, source_id, resp) ==
    IF get_client(s) = None
    THEN [NoQuery EXCEPT !.s = s, !.errors = 1]
    ELSE LET s1 == clear_search_results(s)
         IN IF resp.fail_at # 0 /\ resp.fail_at <= ProbeFetches
            THEN [NoQuery EXCEPT !.s = clear_search_results(s1), !.errors = 1,
                                 !.result = "error", !.queries = 1,
                                 !.pages_read = resp.fail_at - 1]
            ELSE LET first_page == IF resp.pages = <<>> THEN NoPage ELSE resp.pages[1]
                     summary == create_summary_from_search(first_page, source_id)
                 IN [NoQuery EXCEPT !.s = set_summary_data(s1, <<summary>>),
                                    !.result = "ok", !.queries = 1,
                                    !.pages_read = IF Len(resp.pages) < ProbeFetches
                                                   THEN Len(resp.pages) ELSE ProbeFetches]

\* the callback of get_all_series_for_source: what the progress bar is given
update_progress(processed_count, total_series) ==
    [ processed_count |-> processed_count,
      total_series |-> total_series,
      percent |-> IF (100 * processed_count) \div total_series > 100
                  THEN 100 ELSE (100 * processed_count) \div total_series ]

\* the page loop of _fetch_series_metadata_pages from page i on
RECURSIVE FetchFrom(_, _, _, _, _, _)
FetchFrom(resp, total_series, i, all_metadata, processed_count, progress) ==
    IF resp.fail_at = i
    THEN [raised |-> TRUE, all_metadata |-> all_metadata, progress |-> progress]
    ELSE IF i > Len(resp.pages)
    THEN IF total_series = 0
         THEN [raised |-> TRUE, all_metadata |-> all_metadata, progress |-> progress]
         ELSE [raised |-> FALSE, all_metadata |-> all_metadata,
               progress |-> Append(progress, update_progress(total_series, total_series))]
    ELSE LET page == resp.pages[i]
         IN IF HasData(page) /\ hasattr(page.data, "items")
            THEN LET items_on_page == page.data.items
                     with_meta == SelectSeq(items_on_page, LAMBDA item : hasattr(item, "metadata"))
                     metas == [k \in 1 .. Len(with_meta) |-> with_meta[k].metadata]
                     count == processed_count + Len(items_on_page)
                 IN IF total_series = 0
                    THEN [raised |-> TRUE, all_metadata |-> all_metadata \o metas,
                          progress |-> progress]
                    ELSE FetchFrom(resp, total_series, i + 1, all_metadata \o metas, count,
                                   Append(progress, update_progress(count, total_series)))
            ELSE FetchFrom(resp, total_series, i + 1, all_metadata, processed_count, progress)

\* variant: each metadata object is put in front of the list
_fetch_series_metadata_pages_prepending(resp, total_series) ==
    LET r == FetchFrom(resp, total_series, 1, <<>>, 0, <<>>)
    IN [r EXCEPT !.all_metadata =
          [i \in 1 .. Len(r.all_metadata) |-> r.all_metadata[Len(r.all_metadata) + 1 - i]]]

_fetch_series_metadata_pages(resp, total_series) ==
    FetchFrom(resp, total_series, 1, <<>>, 0, <<>>)

\* variant: the except branch keeps what was fetched before the failure
LoadFailedKeepingPartial(s, fetched) ==
    [s EXCEPT !.series_details = fetched.all_metadata]

\* the except branch of get_all_series_for_source
LoadFailed(s, fetched) == clear_series_details(s)

\* variant: the total is recomputed from the drained records
LoadSucceededRecounting(s, source_id, total_series, all_metadata) ==
    LET detailed_stats == process_full_metadata(all_metadata)
        summary_data == get_summary_data(s)
        s1 == IF summary_data # <<>>
              THEN set_summary_data(s,
                     <<[(detailed_stats @@ summary_data[1])
                          EXCEPT !.NumSeries = detailed_stats.ProcessedSeries]>>)
              ELSE s
    IN set_series_details(s1, all_metadata, source_id)

\* "3. Update state" of get_all_series_for_source
LoadSucceeded(s, source_id, total_series, all_metadata) ==
    LET detailed_stats == process_full_metadata(all_metadata)
        summary_data == get_summary_data(s)
        s1 == IF summary_data # <<>>
              THEN set_summary_data(s,
                     <<[(detailed_stats @@ summary_data[1]) EXCEPT !.NumSeries = total_series]>>)
              ELSE s
    IN set_series_details(s1, all_metadata, source_id)

get_all_series_for_source(s, source_id, total_series, resp) ==
    IF get_client(s) = None
    THEN [NoQuery EXCEPT !.s = s, !.errors = 1]
    ELSE LET fetched == _fetch_series_metadata_pages(resp, total_series)
         IN IF fetched.raised
            THEN [NoQuery EXCEPT !.s = LoadFailed(s, fetched), !.errors = 1,
                                 !.result = "error", !.queries = 1,
                                 !.progress = fetched.progress]
            ELSE [NoQuery EXCEPT !.s = LoadSucceeded(s, source_id, total_series,
                                                     fetched.all_metadata),
                                 !.result = "ok", !.queries = 1,
                                 !.progress = fetched.progress]

(***************************************************************************)
(* UIComponents and CEICExplorerApp: one execution of the script           *)
(***************************************************************************)
\* the outcome of an execution; probe and load are the provider queries made
Outcome(s) == [s |-> s, screen |-> {}, rerun |-> FALSE, login |-> 0, auth_errors |-> 0,
               probe |-> NoQuery, load |-> NoQuery,
               seen_request |-> NoRequest, load_before |-> <<>>]

\* render_login_page: trig.arg is <<username, password>>
render_login_page(s, trig, login_ok) ==
    IF trig.w = "SignIn"
    THEN LET a == authenticate(s, trig.arg[1], trig.arg[2], login_ok)
         IN [Outcome(a.s) EXCEPT !.screen = IF a.ok THEN {} ELSE {"SignIn"},
                                 !.rerun = a.ok,
                                 !.login = a.login_calls,
                                 !.auth_errors = a.errors]
    ELSE [Outcome(s) EXCEPT !.screen = {"SignIn"}]

\* variant: the button is offered whatever the number of series
LoadButtonShownIgnoringCount(s) ==
    /\ get_summary_data(s) # <<>>
    /\ ~hasattr(get_summary_data(s)[1], "Info")
    /\ get_summary_data(s)[1].ID # ""
    /\ s.series_details_source_id # get_summary_data(s)[1].ID

\* render_summary_table: whether the "Load Metadata" button is rendered
LoadButtonShown(s) ==
    /\ get_summary_data(s) # <<>>
    /\ ~hasattr(get_summary_data(s)[1], "Info")
    /\ get_summary_data(s)[1].NumSeries > 0
    /\ get_summary_data(s)[1].ID # ""
    /\ s.series_details_source_id # get_summary_data(s)[1].ID

\* the button's effect in render_summary_table
RequestLoad(s) ==
    [s EXCEPT !.source_id_to_load =
        [id |-> get_summary_data(s)[1].ID, count |-> get_summary_data(s)[1].NumSeries]]

\* variant: the gate also stops a total equal to the threshold
NeedsConfirmationFromThreshold(num_series) == num_series >= SERIES_THRESHOLD_FOR_WARNING

\* the gate of _handle_data_loading_logic
NeedsConfirmation(num_series) == num_series > SERIES_THRESHOLD_FOR_WARNING

\* _handle_data_loading_logic, and render_series_details_section after it
\* when the execution gets there
_handle_data_loading_logic(o, trig, resp) ==
    LET s == o.s
        load_request == s.source_id_to_load
        shown == {"Search", "Logout"}
                 \cup (IF LoadButtonShown(s) THEN {"Load"} ELSE {})
        details(o2) ==
            IF o2.s.series_details = <<>>
            THEN o2
            ELSE IF trig.w = "Filter" /\ trig.arg # o2.s.details_filter_keyword
                 THEN [o2 EXCEPT !.s.details_filter_keyword = trig.arg,
                                 !.rerun = TRUE, !.screen = {}]
                 ELSE [o2 EXCEPT !.screen = @ \cup {"Filter"}]
        loaded == LET q == get_all_series_for_source(s, load_request.id,
                                                     load_request.count, resp)
                  IN [o EXCEPT !.s = q.s, !.load = q, !.rerun = ~q.escaped, !.screen = {},
                               !.seen_request = load_request,
                               !.load_before = get_summary_data(s)]
    IN IF load_request = NoRequest
       THEN details([o EXCEPT !.screen = shown])
       ELSE IF s.series_details_source_id = load_request.id
       THEN details([o EXCEPT !.s.source_id_to_load = NoRequest, !.screen = shown,
                              !.seen_request = load_request])
       ELSE IF NeedsConfirmation(load_request.count)
       THEN IF trig.w = "Proceed"
            THEN loaded
            ELSE details([o EXCEPT !.screen = shown \cup {"Proceed"},
                                   !.seen_request = load_request])
       ELSE loaded

_render_main_app(s, trig, resp) ==
    LET q1 == IF trig.w = "Search"
              THEN search_by_source(s, trig.arg, resp)
              ELSE [NoQuery EXCEPT !.s = s]
        o1 == [Outcome(q1.s) EXCEPT !.probe = q1]
    IN IF q1.escaped
       THEN [o1 EXCEPT !.screen = {"Search"}]
       ELSE IF trig.w = "Logout"
       THEN [o1 EXCEPT !.s = clear_session(o1.s), !.rerun = TRUE]
       ELSE IF trig.w = "Load" /\ LoadButtonShown(o1.s)
       THEN [o1 EXCEPT !.s = RequestLoad(o1.s), !.rerun = TRUE]
       ELSE _handle_data_loading_logic(o1, trig, resp)

\* CEICExplorerApp.run
run(s, trig, login_ok, resp) ==
    IF ~s.logged_in
    THEN render_login_page(s, trig, login_ok)
    ELSE _render_main_app(s, trig, resp)

(***************************************************************************)
(* The state machine                                                       *)
(***************************************************************************)
\* the number of items the provider's pages hold
RECURSIVE ItemsIn(_)
ItemsIn(pages) ==
    IF pages = <<>> THEN 0
    ELSE (IF HasData(Head(pages)) THEN Len(Head(pages).data.items) ELSE 0)
         + ItemsIn(Tail(pages))

\* what the provider may answer to the probe
ProbeResponses ==
    { r \in ResponsesOf(PagesOf(Totals, {<<>>})) : r.fail_at <= 1 \/ Len(r.pages) >= 1 }

\* what the provider may answer to the drain: at most MaxDrained items in all
DrainResponses ==
    { r \in ResponsesOf(PagesOf({1}, SeqsUpTo(Items, MaxItems))) :
        r.fail_at <= Len(r.pages) + 1 /\ ItemsIn(r.pages) <= MaxDrained }

NoResponse == [pages |-> <<>>, fail_at |-> 0]

\* an execution without a click reaches get_all_series_for_source
LoadDue(s) ==
    /\ s.logged_in
    /\ s.source_id_to_load # NoRequest
    /\ s.series_details_source_id # s.source_id_to_load.id
    /\ ~NeedsConfirmation(s.source_id_to_load.count)

NoEvent == [trigger |-> "start", arg |-> "", errors |-> 0, login_calls |-> 0,
            probe |-> "none", probe_pages |-> 0, probe_avail |-> 0,
            probe_first |-> NoPage,
            load |-> "none", load_src |-> None, load_total |-> 0,
            load_before |-> <<>>, seen_request |-> NoRequest,
            progress |-> <<>>, drained |-> 0, escaped |-> FALSE, load_pages |-> <<>>]

Execute(trig, login_ok, resp) ==
    \E o \in {run(session_state, trig, login_ok, resp)} :
       /\ session_state' = o.s
       /\ screen' = o.screen
       /\ rerun' = o.rerun
       /\ ev' = [ trigger |-> trig.w,
                  arg |-> IF trig.w = "Search" THEN trig.arg
                          ELSE IF trig.w # "SignIn" THEN ""
                          ELSE IF trig.arg[1] = "" \/ trig.arg[2] = "" THEN "blank"
                          ELSE IF login_ok THEN "accepted" ELSE "rejected",
                  errors |-> o.auth_errors + o.probe.errors + o.load.errors,
                  login_calls |-> o.login,
                  probe |-> o.probe.result,
                  probe_pages |-> o.probe.pages_read,
                  probe_avail |-> IF o.probe.result = "ok" THEN Len(resp.pages) ELSE 0,
                  probe_first |-> IF o.probe.result = "ok" /\ resp.pages # <<>>
                                  THEN resp.pages[1] ELSE NoPage,
                  load |-> o.load.result,
                  load_src |-> IF o.load.result = "none" THEN None ELSE o.seen_request.id,
                  load_total |-> IF o.load.result = "none" THEN 0 ELSE o.seen_request.count,
                  load_before |-> o.load_before,
                  seen_request |-> o.seen_request,
                  progress |-> o.load.progress,
                  drained |-> IF o.load.result = "ok" THEN ItemsIn(resp.pages) ELSE 0,
                  escaped |-> o.probe.escaped \/ o.load.escaped,
                  load_pages |-> IF o.load.result = "ok" THEN resp.pages ELSE <<>> ]
       /\ probed' = IF o.probe.result = "ok"
                    THEN [src |-> trig.arg,
                          total |-> IF resp.pages # <<>> /\ HasData(resp.pages[1])
                                    THEN resp.pages[1].data.total ELSE -1]
                    ELSE probed
       /\ UNCHANGED <<stats_input, stats_output>>

Init ==
    /\ session_state = initialize
    /\ screen = {"SignIn"}
    /\ rerun = FALSE
    /\ ev = NoEvent
    /\ probed = [src |-> None, total |-> -1]
    /\ stats_input = <<>>
    /\ stats_output = NoStats

ClickSignIn ==
    /\ ~rerun /\ "SignIn" \in screen
    /\ \E u \in Usernames, p \in Passwords, login_ok \in BOOLEAN :
          Execute([w |-> "SignIn", arg |-> <<u, p>>], login_ok, NoResponse)

ClickSearch ==
    /\ ~rerun /\ "Search" \in screen
    /\ \E src \in Sources, resp \in ProbeResponses :
          Execute([w |-> "Search", arg |-> src], TRUE, resp)

ClickLogout ==
    /\ ~rerun /\ "Logout" \in screen
    /\ Execute([w |-> "Logout", arg |-> ""], TRUE, NoResponse)

ClickLoad ==
    /\ ~rerun /\ "Load" \in screen
    /\ Execute([w |-> "Load", arg |-> ""], TRUE, NoResponse)

ClickProceed ==
    /\ ~rerun /\ "Proceed" \in screen
    /\ \E resp \in DrainResponses :
          Execute([w |-> "Proceed", arg |-> ""], TRUE, resp)

TypeFilter ==
    /\ ~rerun /\ "Filter" \in screen
    /\ \E kw \in Keywords :
          /\ kw # session_state.details_filter_keyword
          /\ Execute([w |-> "Filter", arg |-> kw], TRUE, NoResponse)

\* the execution queued by st.rerun(); the provider is asked only when
\* _handle_data_loading_logic finds a request to load without confirmation
Rerun ==
    /\ rerun
    /\ \E resp \in IF LoadDue(session_state) THEN DrainResponses ELSE {NoResponse} :
          Execute([w |-> "rerun", arg |-> ""], TRUE, resp)

Next ==
    \/ ClickSignIn
    \/ ClickSearch
    \/ ClickLogout
    \/ ClickLoad
    \/ ClickProceed
    \/ TypeFilter
    \/ Rerun

Spec == Init /\ [][Next]_vars

(***************************************************************************)
(* process_full_metadata on its own: called on a list, and called again    *)
(* on the list with two of its records exchanged                           *)
(***************************************************************************)
InitAgg ==
    /\ session_state = initialize
    /\ screen = {}
    /\ rerun = FALSE
    /\ ev = NoEvent
    /\ probed = [src |-> None, total |-> -1]
    /\ stats_input \in SeqsUpTo(AggMetas, MaxList)
    /\ stats_output = NoStats

Aggregate ==
    /\ stats_output = NoStats
    /\ stats_output' = process_full_metadata(stats_input)
    /\ ev' = [NoEvent EXCEPT !.trigger = "aggregate"]
    /\ UNCHANGED <<session_state, screen, rerun, probed, stats_input>>

Shuffle ==
    /\ stats_output # NoStats
    /\ \E i, j \in 1 .. Len(stats_input) :
          /\ i < j
          /\ stats_input' = [stats_input EXCEPT ![i] = stats_input[j],
                                                    ![j] = stats_input[i]]
          /\ stats_output' = process_full_metadata(stats_input')
    /\ ev' = [NoEvent EXCEPT !.trigger = "shuffle"]
    /\ UNCHANGED <<session_state, screen, rerun, probed>>

NextAgg ==
    \/ Aggregate
    \/ Shuffle

SpecAgg == InitAgg /\ [][NextAgg]_vars

(***************************************************************************)
(* Properties                                                              *)
(***************************************************************************)
Threshold == SERIES_THRESHOLD_FOR_WARNING
Summary == session_state.summary_data
Details == session_state.series_details
DetailsSource == session_state.series_details_source_id
LoadRequest == session_state.source_id_to_load

\* C1: a full load is attempted once: after the provider raised during the
\* drain no load is pending, one error was surfaced, and the next execution
\* queries the provider for it only if the user acted
C1_SingleAttempt ==
    [][ ev.load = "error" =>
          /\ LoadRequest = NoRequest
          /\ ev.errors = 1
          /\ (ev'.trigger = "rerun" => ev'.load = "none") ]_vars

\* C2: when the provider raises during a full load, the session afterwards
\* holds no series details and the summary it held before the load
C2_FailedLoadKeepsSummary ==
    ev.load = "error" =>
        /\ Details = <<>>
        /\ DetailsSource = None
        /\ Summary = ev.load_before

C2_Witness ==
    /\ ev.load = "error"
    /\ ev.progress # <<>>
    /\ Summary # <<>>
    /\ ev.load_total > Threshold

\* C3: a requested load of at most SERIES_THRESHOLD_FOR_WARNING series is
\* drained in the execution that finds the request, with no confirmation;
\* a larger one is drained only in an execution started by "Proceed to Load"
C3_ThresholdGate ==
    /\ ev.load # "none" =>
          (ev.load_total <= Threshold \/ ev.trigger = "Proceed")
    /\ (/\ ev.seen_request # NoRequest
        /\ ev.seen_request.count <= Threshold
        /\ DetailsSource # ev.seen_request.id \/ ev.load = "ok")
          => (ev.load # "none" /\ ev.trigger # "Proceed" /\ "Proceed" \notin screen)
    /\ (/\ ev.seen_request # NoRequest
        /\ ev.seen_request.count > Threshold
        /\ ev.trigger # "Proceed")
          => ev.load = "none"

C3_Witness ==
    /\ ev.load # "none"
    /\ ev.load_total = Threshold
    /\ ev.trigger = "rerun"

C3_WitnessAbove ==
    /\ ev.load # "none"
    /\ ev.load_total = Threshold + 1
    /\ ev.trigger = "Proceed"

\* C4: after logout the session is not logged in and holds no client, no
\* summary, no series details and no pending load request
C4_LogoutClearsEverything ==
    ev.trigger = "Logout" =>
        /\ ~session_state.logged_in
        /\ session_state.ceic_client = None
        /\ Summary = <<>>
        /\ Details = <<>>
        /\ DetailsSource = None
        /\ LoadRequest = NoRequest

\* C5: a new search issued while a large load awaits confirmation abandons
\* the pending request, whether the probe succeeds or fails
C5_SearchAbandonsPendingLoad ==
    [][ (~rerun /\ "Proceed" \in screen /\ ev'.trigger = "Search") =>
          (LoadRequest' = NoRequest /\ "Proceed" \notin screen') ]_vars

\* C6: a drain starts only while the session holds the probe summary of that
\* source with the total passed to the load, and series details are held
\* only together with the summary of their source
C6_LoadOnlyAfterProbe ==
    /\ ev.load # "none" =>
          /\ ev.load_before # <<>>
          /\ ev.load_before[1].ID = ev.load_src
          /\ ev.load_before[1].NumSeries = ev.load_total
    /\ DetailsSource # None =>
          (Summary # <<>> /\ Summary[1].ID = DetailsSource)

C8_ProgressClamped ==
    \A i \in 1 .. Len(ev.progress) :
        ev.progress[i].processed_count <= ev.progress[i].total_series

\* C9: the processed_count values given to the progress callback during one
\* load, the final call included, never decrease
C9_ProgressMonotonic ==
    \A i \in 1 .. Len(ev.progress) - 1 :
        ev.progress[i].processed_count <= ev.progress[i + 1].processed_count

\* C10: a probe whose first page carries data leaves one summary with the
\* searched source and the declared total, no series details, no pending
\* load request, and has read one page of the iterator
C10_ProbeSuccess ==
    (ev.probe = "ok" /\ HasData(ev.probe_first)) =>
        /\ Summary = <<[ID |-> ev.arg, NumSeries |-> ev.probe_first.data.total]>>
        /\ Details = <<>>
        /\ DetailsSource = None
        /\ LoadRequest = NoRequest
        /\ ev.probe_pages = 1

C10_Witness ==
    /\ ev.probe = "ok"
    /\ HasData(ev.probe_first)
    /\ ev.probe_first.data.total = Threshold + 1
    /\ ev.probe_avail > 1

\* C11: when the provider raises during a probe, the search ends with the
\* summary and the series details cleared and the session idle: nothing
\* held and no load awaiting confirmation
C11_ProbeErrorClears ==
    ev.probe = "error" =>
        /\ Summary = <<>>
        /\ Details = <<>>
        /\ DetailsSource = None
        /\ LoadRequest = NoRequest
        /\ "Proceed" \notin screen

\* C12: a probe that returns no page, a page without data or a declared
\* total of 0 gives a summary with Num Series 0, and while such a summary is
\* held no load is offered, requested or started
C12_EmptyResultNoLoad ==
    /\ (ev.probe = "ok" /\ (~HasData(ev.probe_first) \/ ev.probe_first.data.total = 0))
          => (Summary # <<>> /\ Summary[1].ID = ev.arg /\ Summary[1].NumSeries = 0)
    /\ (Summary # <<>> /\ Summary[1].NumSeries = 0)
          => /\ LoadRequest = NoRequest
             /\ "Load" \notin screen
             /\ "Proceed" \notin screen
             /\ ev.load = "none"

C12_Witness ==
    /\ ev.probe = "ok"
    /\ HasData(ev.probe_first)
    /\ ev.probe_first.data.total = 0
    /\ Summary # <<>>
    /\ ~hasattr(Summary[1], "Info")

C12_WitnessNoPage ==
    /\ ev.probe = "ok"
    /\ ev.probe_avail = 0
    /\ Summary # <<>>

Enriched(summary) ==
    \/ hasattr(summary, "MinDate")
    \/ hasattr(summary, "MaxDate")
    \/ hasattr(summary, "ActiveSeries")
    \/ hasattr(summary, "ProcessedSeries")

\* C13: the summary carries enrichment fields only while the series details
\* held are those of the summary's source
C13_EnrichedOnlyWhenLoaded ==
    (Summary # <<>> /\ Enriched(Summary[1])) => DetailsSource = Summary[1].ID

C13_Witness ==
    /\ Summary # <<>>
    /\ Enriched(Summary[1])
    /\ DetailsSource = Summary[1].ID
    /\ Details # <<>>

\* C20: a pending load request has a positive count, a load is never
\* started with total 0, and a request held together with a summary has
\* the summary's ID and Num Series
C20_RequestMatchesSummary ==
    /\ LoadRequest # NoRequest =>
          /\ LoadRequest.count > 0
          /\ Summary # <<>> =>
                /\ LoadRequest.id = Summary[1].ID
                /\ LoadRequest.count = Summary[1].NumSeries
    /\ ev.load # "none" => ev.load_total > 0
    /\ \A i \in 1 .. Len(ev.progress) : ev.progress[i].total_series > 0

C20_Witness ==
    /\ LoadRequest # NoRequest
    /\ Summary # <<>>
    /\ "Proceed" \in screen
    /\ ev.trigger = "rerun"

\* C17: a sign-in whose login call fails returns False with the session
\* cleared after one login call; a sign-in with a blank username or
\* password returns False with no login call and the session unchanged
C17_FailedSignIn ==
    [][ ev'.trigger = "SignIn" =>
          /\ ev'.arg = "blank" =>
                /\ session_state' = session_state
                /\ ev'.login_calls = 0
                /\ ~rerun'
          /\ ev'.arg = "rejected" =>
                /\ ~session_state'.logged_in
                /\ session_state'.ceic_client = None
                /\ session_state'.summary_data = <<>>
                /\ session_state'.series_details = <<>>
                /\ session_state'.series_details_source_id = None
                /\ ev'.login_calls = 1
                /\ ~rerun' ]_vars

C17_Witness ==
    /\ ev.trigger = "SignIn"
    /\ ev.arg = "rejected"
    /\ ev.errors = 1
    /\ ~session_state.logged_in

C17_WitnessBlank ==
    /\ ev.trigger = "SignIn"
    /\ ev.arg = "blank"
    /\ ev.login_calls = 0

\* C18: when the provider raises in a probe or in a full load, the service
\* method returns to the script, which goes on, and one error is surfaced
C18_NoFailureEscapes ==
    /\ ev.probe = "error" =>
          /\ ~ev.escaped
          /\ ev.errors = 1
          /\ {"Search", "Logout"} \subseteq screen
    /\ ev.load = "error" =>
          /\ ~ev.escaped
          /\ ev.errors = 1
          /\ rerun

C18_Witness ==
    /\ ev.probe = "error"
    /\ ev.errors = 1
    /\ "Logout" \in screen

C18_WitnessLoad ==
    /\ ev.load = "error"
    /\ ev.errors = 1
    /\ ev.progress # <<>>

\* the metadata of the items of the pages, page by page and item by item
RECURSIVE MetadataOf(_)
MetadataOf(pages) ==
    IF pages = <<>> THEN <<>>
    ELSE LET items == IF HasData(Head(pages)) THEN Head(pages).data.items ELSE <<>>
             have == SelectSeq(items, LAMBDA item : "metadata" \in DOMAIN item)
         IN [k \in 1 .. Len(have) |-> have[k].metadata] \o MetadataOf(Tail(pages))

DataPages(pages) == { i \in 1 .. Len(pages) : HasData(pages[i]) }

\* the index of the j-th page that has data
NthDataPage(pages, j) ==
    CHOOSE i \in DataPages(pages) :
        Cardinality({ k \in DataPages(pages) : k <= i }) = j

Dated(list) ==
    { i \in 1 .. Len(list) :
        "last_update_time" \in DOMAIN list[i] /\ list[i].last_update_time # NoTime }

DayText(time) == ToString(time \div TicksPerDay)

\* C14: Min Date and Max Date are the days of the least and the greatest
\* last_update_time among the records that have one, and both are "N/A"
\* when no record has one, the empty list included
C14_DateRange ==
    stats_output # NoStats =>
        IF Dated(stats_input) = {}
        THEN stats_output.MinDate = "N/A" /\ stats_output.MaxDate = "N/A"
        ELSE /\ \E i \in Dated(stats_input) :
                  /\ \A j \in Dated(stats_input) :
                        stats_input[i].last_update_time <= stats_input[j].last_update_time
                  /\ stats_output.MinDate = DayText(stats_input[i].last_update_time)
             /\ \E i \in Dated(stats_input) :
                  /\ \A j \in Dated(stats_input) :
                        stats_input[i].last_update_time >= stats_input[j].last_update_time
                  /\ stats_output.MaxDate = DayText(stats_input[i].last_update_time)

\* the example: days 1, 2, 0 give Min Date day 0 and Max Date day 2
C14_Witness ==
    /\ stats_input = << [last_update_time |-> 1 * TicksPerDay, status |-> "Active"],
                          [last_update_time |-> 2 * TicksPerDay, status |-> "Inactive"],
                          [last_update_time |-> 0, status |-> "Active"] >>
    /\ stats_output # NoStats
    /\ stats_output.MinDate = "0"
    /\ stats_output.MaxDate = "2"

C14_WitnessNoDates ==
    /\ Len(stats_input) = 3
    /\ Dated(stats_input) = {}
    /\ stats_output # NoStats
    /\ stats_output.MinDate = "N/A"

\* C15: Active Series is the number of records whose status is Active and
\* Processed Series is the length of the list
C15_Counts ==
    stats_output # NoStats =>
        /\ stats_output.ActiveSeries =
              Cardinality({ i \in 1 .. Len(stats_input) :
                              /\ "status" \in DOMAIN stats_input[i]
                              /\ stats_input[i].status = "Active" })
        /\ stats_output.ProcessedSeries = Len(stats_input)

\* the example: statuses Active, Inactive, Active give 2 active of 3
C15_Witness ==
    /\ Len(stats_input) = 3
    /\ \A i \in 1 .. 3 : "status" \in DOMAIN stats_input[i]
    /\ <<stats_input[1].status, stats_input[2].status, stats_input[3].status>>
          = <<"Active", "Inactive", "Active">>
    /\ stats_output # NoStats
    /\ stats_output.ActiveSeries = 2
    /\ stats_output.ProcessedSeries = 3

C15_WitnessUnknown ==
    /\ Len(stats_input) = 3
    /\ \E i, j, k \in 1 .. 3 :
          /\ "status" \notin DOMAIN stats_input[i]
          /\ "status" \in DOMAIN stats_input[j] /\ stats_input[j].status = "Unknown"
          /\ "status" \in DOMAIN stats_input[k] /\ stats_input[k].status = "Active"
    /\ stats_output # NoStats
    /\ stats_output.ActiveSeries = 1

\* the number of times record m is in list
CountOf(list, m) == Cardinality({ i \in 1 .. Len(list) : list[i] = m })

\* C16: process_full_metadata returns the same statistics for a list and
\* for a permutation of it
C16_OrderIndependent ==
    [][ (/\ stats_output # NoStats
         /\ stats_output' # NoStats
         /\ Len(stats_input') = Len(stats_input)
         /\ \A m \in AggMetas : CountOf(stats_input', m) = CountOf(stats_input, m))
        => stats_output' = stats_output ]_vars

C16_Witness ==
    /\ ev.trigger = "shuffle"
    /\ Len(stats_input) = 3
    /\ Dated(stats_input) = {1, 2, 3}
    /\ stats_input[1].last_update_time > stats_input[2].last_update_time
    /\ stats_input[2].last_update_time > stats_input[3].last_update_time
    /\ stats_output.MinDate # stats_output.MaxDate
    /\ stats_output.ActiveSeries = 1

\* C21: the session is logged in exactly when it holds a client, and no
\* search or full load ends in the "Client not initialized" branch: a
\* search always queries the provider, and an execution that makes no
\* login call and no query surfaces no error
C21_LoggedInIffClient ==
    /\ session_state.logged_in <=> (session_state.ceic_client # None)
    /\ ev.trigger = "Search" => ev.probe # "none"
    /\ (ev.trigger # "SignIn" /\ ev.probe = "none" /\ ev.load = "none") => ev.errors = 0
    /\ (ev.seen_request # NoRequest /\ ev.trigger = "Proceed") => ev.load # "none"

C21_Witness ==
    /\ session_state.logged_in
    /\ session_state.ceic_client # None
    /\ ev.trigger = "Search"
    /\ ev.probe = "ok"
    /\ probed.src = ev.arg

C21_WitnessLoggedOut ==
    /\ ~session_state.logged_in
    /\ session_state.ceic_client = None
    /\ ev.trigger = "SignIn"
    /\ ev.arg = "rejected"
    /\ probed.src # None

====
